---- MODULE Spec2Model ----
(***************************************************************************)
(* Model of the Stockfish engine adapter (src/lib/chess/engine.ts): one    *)
(* StockfishEngine object, the Web Workers it creates, and the analyze /   *)
(* evaluatePosition / getBestMove calls issued on it.                      *)
(*                                                                         *)
(* JavaScript runs every callback to completion, so one action is one      *)
(* task of the event loop (a caller's synchronous call, or one onmessage   *)
(* callback).  The continuation of an `await` is a microtask: it is a      *)
(* separate action, ResumeAnalyze, and while a microtask is queued no      *)
(* other task may start.                                                   *)
(*                                                                         *)
(* A worker message is a line of text; it is modelled as the sequence of   *)
(* its space-separated tokens.  Evaluations are kept in hundredths of a    *)
(* pawn, so that parseInt(value) / 100 stays an integer.                   *)
(***************************************************************************)
EXTENDS Integers, Sequences, FiniteSets, TLC

\* ---- bounds of the model ----
MaxOps == 3        \* calls made on the engine: initialize, analyze, terminate
MaxMsgs == 4       \* messages posted by the workers
MaxPlies == 42     \* half-moves of the game given to analyzeGame
MaxRuns == 2       \* runs of analyzeGame made on one GameAnalyzer
MaxShortPlies == 1 \* half-moves of a game analysed on the modelled engine

\* ---- program constants ----
AnalyzeDepth == 18     \* analyze(fen, depth = 18)
PawnUnit == 100        \* parseInt(value) / 100
MateEval == 100        \* evaluation = mate > 0 ? 100 : -100

VARIABLES
    hasWindow,      \* typeof window !== 'undefined' (fixed by the environment)
    worker,         \* this.worker: 0 is null, otherwise the worker's index
    ready,          \* this.ready
    messageQueue,   \* this.messageQueue: the queued messageHandler closures,
                    \* each named by the call that created it
    workers,        \* every Worker created so far (alive or terminated)
    inits,          \* every promise returned by initialize()
    calls,          \* every analyze call: its promise and its closure variables
    microtasks,     \* calls whose `await this.initialize()` can continue
    nmsgs,          \* history: number of worker messages so far
    last,           \* history: the latest worker message and the handler
                    \* onmessage passed it to (0: none)
    fn,             \* one application of a pure function of the program to
                    \* an input: the input and what the function returned
    ga,             \* one run of GameAnalyzer.analyzeGame: its position in
                    \* the code, its local variables and its outcome
    post,           \* one request to POST /api/analysis: its position in the
                    \* handler, the rows it wrote and its response
    runs            \* the runs of analyzeGame made on one GameAnalyzer that
                    \* drives the engine above

vars == <<hasWindow, worker, ready, messageQueue, workers, inits, calls,
          microtasks, nmsgs, last, fn, ga, post, runs>>

\* ---------------------------------------------------------------------
\* Lines of text and the regular expressions applied to them
\* ---------------------------------------------------------------------

\* parseInt on the numeric tokens that occur in the modelled lines.
NumTable ==
    [t \in {"0", "1", "2", "3", "30", "-45", "-2", "4"} |->
        CASE t = "0" -> 0
          [] t = "1" -> 1
          [] t = "2" -> 2
          [] t = "3" -> 3
          [] t = "4" -> 4
          [] t = "30" -> 30
          [] t = "-45" -> 0 - 45
          [] t = "-2" -> 0 - 2]

ParseInt(t) == NumTable[t]

\* \d+ at the start of a token, and -?\d+ at the start of a token.
IsDigits(t) == t \in DOMAIN NumTable /\ NumTable[t] >= 0
IsSignedDigits(t) == t \in DOMAIN NumTable

\* A regular expression is not anchored: "depth " also matches at the end
\* of "seldepth ", and "pv " at the end of "multipv ".
EndsWithDepth(t) == t \in {"depth", "seldepth"}
EndsWithPv(t) == t \in {"pv", "multipv"}
EndsWithScore(t) == t = "score"
EndsWithBestmove(t) == t = "bestmove"

\* A regular expression matches at the leftmost place it can: the least
\* index of S, or 0 when there is no match (null).
Leftmost(S) == IF S = {} THEN 0 ELSE CHOOSE i \in S : \A j \in S : i <= j

\* message.match(/depth (\d+)/): index of the token before the digits, or 0.
DepthAt(line, i) ==
    i < Len(line) /\ EndsWithDepth(line[i]) /\ IsDigits(line[i + 1])
DepthMatch(line) == Leftmost({i \in 1..Len(line) : DepthAt(line, i)})

\* message.match(/score (cp|mate) (-?\d+)/)
ScoreAt(line, i) ==
    /\ i + 1 < Len(line)
    /\ EndsWithScore(line[i])
    /\ line[i + 1] \in {"cp", "mate"}
    /\ IsSignedDigits(line[i + 2])
ScoreMatch(line) == Leftmost({i \in 1..Len(line) : ScoreAt(line, i)})

\* message.match(/pv (.+)/): the capture is the whole rest of the line.
PvAt(line, i) == i < Len(line) /\ EndsWithPv(line[i])
PvMatch(line) == Leftmost({i \in 1..Len(line) : PvAt(line, i)})

\* message.match(/bestmove (\S+)/)
MoveAt(line, i) == i < Len(line) /\ EndsWithBestmove(line[i])
MoveMatch(line) == Leftmost({i \in 1..Len(line) : MoveAt(line, i)})

\* message.startsWith('info depth'), message.startsWith('bestmove')
StartsWithInfoDepth(line) ==
    Len(line) >= 2 /\ line[1] = "info" /\ line[2] = "depth"
StartsWithBestmove(line) == Len(line) >= 1 /\ line[1] = "bestmove"

\* ---------------------------------------------------------------------
\* The messageHandler closure of one analyze call
\* ---------------------------------------------------------------------

\* A variant of the 'info depth' branch that keeps the distance to mate as
\* the evaluation instead of the extreme value.
ParseInfoMateDistance(c, line) ==
    LET d == DepthMatch(line)
        s == ScoreMatch(line)
        p == PvMatch(line)
        value == ParseInt(line[s + 2])
    IN  [c EXCEPT
            !.currentDepth = IF d # 0 THEN ParseInt(line[d + 1]) ELSE @,
            !.evaluation = IF s = 0 THEN @ ELSE value,
            !.mate = IF s # 0 /\ line[s + 1] = "mate" THEN <<value>> ELSE @,
            !.pv = IF p # 0 THEN SubSeq(line, p + 1, Len(line)) ELSE @]

\* The closure variables after the 'info depth' branch has parsed the line.
ParseInfo(c, line) ==
    LET d == DepthMatch(line)
        s == ScoreMatch(line)
        p == PvMatch(line)
        value == ParseInt(line[s + 2])
    IN  [c EXCEPT
            !.currentDepth = IF d # 0 THEN ParseInt(line[d + 1]) ELSE @,
            !.evaluation =
                IF s = 0 THEN @
                ELSE IF line[s + 1] = "cp" THEN value
                ELSE IF value > 0 THEN MateEval * PawnUnit
                ELSE 0 - MateEval * PawnUnit,
            !.mate = IF s # 0 /\ line[s + 1] = "mate" THEN <<value>> ELSE @,
            !.pv = IF p # 0 THEN SubSeq(line, p + 1, Len(line)) ELSE @]

\* The 'bestmove' branch: with a move token the promise is resolved.
ParseBestmove(c, line) ==
    LET m == MoveMatch(line)
    IN  IF m = 0 THEN c
        ELSE [c EXCEPT !.bestMove = line[m + 1],
                       !.pc = IF @ = "pending" THEN "resolved" ELSE @]

\* messageHandler(message): the call's record after the handler has run.
MessageHandler(c, line) ==
    LET c1 == IF StartsWithInfoDepth(line) THEN ParseInfo(c, line) ELSE c
    IN  IF StartsWithBestmove(line) THEN ParseBestmove(c1, line) ELSE c1

\* The handler pushes itself back onto messageQueue in the else branch.
Requeues(line) == ~StartsWithBestmove(line)

\* What the promise of analyze resolves with.
Result(c) ==
    [move |-> c.bestMove, evaluation |-> c.evaluation, mate |-> c.mate,
     depth |-> c.currentDepth, pv |-> c.pv]

\* evaluatePosition and getBestMove await analyze and return one field of
\* its result; their promises settle exactly when that of analyze does.
EvaluatePosition(c) == Result(c).evaluation
GetBestMove(c) == Result(c).move

\* ---------------------------------------------------------------------
\* The workers (the external evaluator)
\* ---------------------------------------------------------------------

\* Lines a search emits before its result line.
InfoLines ==
    { <<"info", "depth", "1", "score", "cp", "30", "pv", "e2e4">>,
      <<"info", "depth", "2", "seldepth", "3", "multipv", "1",
        "score", "cp", "-45", "pv", "d2d4", "d7d5">>,
      <<"info", "depth", "3", "score", "mate", "-2">>,
      <<"info", "depth", "4", "currmove", "e2e4">> }

\* The result line of a search.
ResultLines == { <<"bestmove", "e2e4">>, <<"bestmove", "d2d4", "ponder", "d7d5">> }

\* Lines of a search's output that are no part of the grammar.
OtherLines == { <<"readyok">>, <<"bestmove">> }

\* The calls whose 'go' command worker w has received, in the order received.
Searches(w) ==
    LET gos == SelectSeq(workers[w].log, LAMBDA e : e.cmd = "go")
    IN  [i \in 1..Len(gos) |-> gos[i].req]

\* The search worker w is running: the oldest one it has not answered, or 0.
CurrentSearch(w) ==
    IF workers[w].served < Len(Searches(w))
    THEN Searches(w)[workers[w].served + 1]
    ELSE 0

\* The messages worker w may post now: 'uciok' in answer to 'uci', and the
\* output of the search it is running; tag names the search a line belongs to.
Emittable(w) ==
    LET cur == CurrentSearch(w)
    IN  (IF workers[w].uciok THEN {} ELSE {[line |-> <<"uciok">>, tag |-> 0]})
        \cup (IF cur = 0 THEN {}
              ELSE {[line |-> l, tag |-> cur] :
                       l \in InfoLines \cup OtherLines \cup ResultLines})

\* ---------------------------------------------------------------------
\* The engine
\* ---------------------------------------------------------------------

\* The engine was stopped by terminate() and not started again since.
Stopped ==
    worker = 0 /\ Len(workers) > 0 /\ ~workers[Len(workers)].alive

\* send(command): posts to this.worker (wk) if there is one.  A log entry
\* keeps, as history, whether the worker had sent 'uciok' when it was written.
Send(ws, wk, cmd, r, d) ==
    IF wk # 0
    THEN [ws EXCEPT ![wk].log =
            Append(@, [cmd |-> cmd, req |-> r, depth |-> d, okd |-> ws[wk].uciok])]
    ELSE ws

\* The closure of a new analyze call.
NewCall(d, pc) ==
    [depth |-> d, pc |-> pc,
     bestMove |-> "", evaluation |-> 0, mate |-> <<>>, currentDepth |-> 0,
     pv |-> <<>>,
     \* history: the number of workers created when terminate() first ran
     \* with this call pending (-1: never), and whether the engine was
     \* stopped when the call was made
     cutAt |-> 0 - 1, onStopped |-> Stopped]

\* The promise executor of analyze: push the handler, send the two commands.
Register(ws, wk, r, d) ==
    Send(Send(ws, wk, "position", r, 0), wk, "go", r, d)

\* initialize(), called by awaiter aw (a call, or 0 for an outside caller).
Initialize(aw) ==
    IF ~hasWindow
    THEN /\ inits' = Append(inits, [worker |-> 0, awaiter |-> aw,
                                    state |-> "resolved",
                                    hadWorker |-> worker # 0, wasReady |-> ready])
         /\ microtasks' = IF aw # 0 THEN Append(microtasks, aw) ELSE microtasks
         /\ UNCHANGED <<worker, workers>>
    ELSE LET w == Len(workers) + 1
         IN  /\ worker' = w
             /\ workers' = Send(Append(workers, [alive |-> TRUE, log |-> <<>>,
                                                 uciok |-> FALSE, served |-> 0]),
                                w, "uci", 0, 0)
             /\ inits' = Append(inits, [worker |-> w, awaiter |-> aw,
                                        state |-> "pending",
                                        hadWorker |-> FALSE, wasReady |-> FALSE])
             /\ UNCHANGED microtasks

\* The number of calls made on the engine so far that had an effect: the
\* initialize() calls from outside, the analyze calls, the terminate() calls
\* that stopped a worker.
Ops ==
    Len(calls)
    + Cardinality({i \in DOMAIN inits : inits[i].awaiter = 0})
    + Cardinality({w \in DOMAIN workers : ~workers[w].alive})

\* No pure function has been applied; analyzeGame has not been called.
NoApplication == [op |-> "none"]
NoRun == [pc |-> "idle"]
NoRequest == [pc |-> "idle"]

Init ==
    /\ fn = NoApplication
    /\ ga = NoRun
    /\ post = NoRequest
    /\ runs = <<>>
    /\ hasWindow \in BOOLEAN
    /\ worker = 0
    /\ ready = FALSE
    /\ messageQueue = <<>>
    /\ workers = <<>>
    /\ inits = <<>>
    /\ calls = <<>>
    /\ microtasks = <<>>
    /\ nmsgs = 0
    /\ last = [worker |-> 0, line |-> <<>>, tag |-> 0, to |-> 0]

\* An outside caller (GameAnalyzer.initialize) calls initialize().
CallInitialize ==
    /\ microtasks = <<>>
    /\ Ops < MaxOps
    /\ Initialize(0)
    /\ UNCHANGED <<hasWindow, ready, messageQueue, calls, nmsgs, last, fn, ga, post, runs>>

\* A caller calls analyze (directly, or through evaluatePosition or
\* getBestMove).  The position is named by the call; the depth argument is
\* left out, so that the default applies.
CallAnalyze ==
    LET r == Len(calls) + 1
        depth == AnalyzeDepth
    IN  /\ microtasks = <<>>
        /\ Ops < MaxOps
        /\ IF ready
           THEN /\ calls' = Append(calls, NewCall(depth, "pending"))
                /\ messageQueue' = Append(messageQueue, r)
                /\ workers' = Register(workers, worker, r, depth)
                /\ UNCHANGED <<worker, inits, microtasks>>
           ELSE /\ Initialize(r)
                /\ calls' = Append(calls, NewCall(depth, "awaitInit"))
                /\ UNCHANGED messageQueue
        /\ UNCHANGED <<hasWindow, ready, nmsgs, last, fn, ga, post, runs>>

\* The continuation of `await this.initialize()` in analyze.
ResumeAnalyze ==
    /\ microtasks # <<>>
    /\ LET r == Head(microtasks)
       IN  /\ calls' = [calls EXCEPT ![r].pc = "pending"]
           /\ messageQueue' = Append(messageQueue, r)
           /\ workers' = Register(workers, worker, r, calls[r].depth)
    /\ microtasks' = Tail(microtasks)
    /\ UNCHANGED <<hasWindow, worker, ready, inits, nmsgs, last, fn, ga, post, runs>>

\* terminate()
Terminate ==
    /\ microtasks = <<>>
    /\ Ops < MaxOps
    /\ worker # 0
    /\ workers' = [workers EXCEPT ![worker].alive = FALSE]
    /\ worker' = 0
    /\ ready' = FALSE
    /\ calls' = [r \in DOMAIN calls |->
                    IF calls[r].pc \in {"awaitInit", "pending"} /\ calls[r].cutAt < 0
                    THEN [calls[r] EXCEPT !.cutAt = Len(workers)]
                    ELSE calls[r]]
    /\ UNCHANGED <<hasWindow, messageQueue, inits, microtasks, nmsgs, last, fn, ga, post, runs>>

\* terminate() on an engine that has no worker does nothing.
TerminateIdle ==
    /\ microtasks = <<>>
    /\ worker = 0
    /\ UNCHANGED vars

\* worker.onmessage for worker w, called with message m.
OnMessage(w, m) ==
    LET isOk == m.line = <<"uciok">>
        ws1 == [workers EXCEPT
                   ![w].uciok = @ \/ isOk,
                   ![w].served = IF m.line \in ResultLines THEN @ + 1 ELSE @]
        ws2 == IF isOk
               THEN Send(Send(ws1, worker, "threads", 0, 0), worker, "hash", 0, 0)
               ELSE ws1
        h == Head(messageQueue)
        c == MessageHandler(calls[h], m.line)
    IN  /\ microtasks = <<>>
        /\ nmsgs < MaxMsgs
        /\ workers[w].alive
        /\ m \in Emittable(w)
        /\ nmsgs' = nmsgs + 1
        /\ ready' = (ready \/ isOk)
        /\ workers' = ws2
        /\ inits' = [i \in DOMAIN inits |->
                        IF isOk /\ inits[i].worker = w /\ inits[i].state = "pending"
                        THEN [inits[i] EXCEPT !.state = "resolved",
                                              !.hadWorker = worker # 0,
                                              !.wasReady = TRUE]
                        ELSE inits[i]]
        /\ microtasks' =
              IF isOk
              THEN SelectSeq([i \in DOMAIN inits |->
                                 IF inits[i].worker = w /\ inits[i].state = "pending"
                                 THEN inits[i].awaiter ELSE 0],
                             LAMBDA a : a # 0)
              ELSE microtasks
        /\ IF messageQueue # <<>>
           THEN /\ messageQueue' = IF Requeues(m.line)
                                   THEN Append(Tail(messageQueue), h)
                                   ELSE Tail(messageQueue)
                /\ calls' = [calls EXCEPT ![h] = c]
           ELSE UNCHANGED <<messageQueue, calls>>
        /\ last' = [worker |-> w, line |-> m.line, tag |-> m.tag,
                    to |-> IF messageQueue # <<>> THEN h ELSE 0]
        /\ UNCHANGED <<hasWindow, worker, fn, ga, post, runs>>

Next ==
    \/ CallInitialize
    \/ CallAnalyze
    \/ ResumeAnalyze
    \/ Terminate
    \/ TerminateIdle
    \/ \E w \in DOMAIN workers : \E m \in Emittable(w) : OnMessage(w, m)

Spec == Init /\ [][Next]_vars

\* The event loop runs every queued microtask.
FairSpec == Spec /\ WF_vars(ResumeAnalyze)

TypeOK ==
    /\ hasWindow \in BOOLEAN
    /\ worker \in 0..Len(workers)
    /\ ready \in BOOLEAN
    /\ \A i \in DOMAIN messageQueue : messageQueue[i] \in DOMAIN calls
    /\ Len(workers) <= Len(inits)
    /\ Ops <= MaxOps
    /\ nmsgs \in 0..MaxMsgs

\* ---------------------------------------------------------------------
\* GameAnalyzer (src/unnamed/part_011): the pure functions
\* ---------------------------------------------------------------------

\* Accuracies are kept in hundredths of a point, as evaluations are kept in
\* hundredths of a pawn, so that 100 - evalDrop * 20 stays an integer.
OpeningMoves == 10                     \* moveNumber <= 10
EndgamePieces == 12                    \* pieces <= 12
BlunderDrop == 3 * PawnUnit            \* Math.abs(evalDrop) >= 3
MistakeDrop == (3 * PawnUnit) \div 2   \* Math.abs(evalDrop) >= 1.5
InaccuracyDrop == PawnUnit \div 2      \* Math.abs(evalDrop) >= 0.5
BrilliantDrop == 0 - PawnUnit          \* evalDrop < -1
FullAccuracy == 100 * PawnUnit         \* moveAccuracy = 100
AccuracySlope == 20                    \* evalDrop * 20

Abs(x) == IF x < 0 THEN 0 - x ELSE x
Max(a, b) == IF a >= b THEN a ELSE b

\* determinePhase with the comparisons made strict.
DeterminePhaseStrict(moveNumber, pieces) ==
    IF moveNumber < OpeningMoves THEN "opening"
    ELSE IF pieces < EndgamePieces THEN "endgame"
    ELSE "middlegame"

DeterminePhase(moveNumber, pieces) ==
    IF moveNumber <= OpeningMoves THEN "opening"
    ELSE IF pieces <= EndgamePieces THEN "endgame"
    ELSE "middlegame"

\* classifyMistake with the thresholds made exclusive.
ClassifyMistakeExclusive(evalDrop) ==
    IF Abs(evalDrop) > BlunderDrop THEN "blunder"
    ELSE IF Abs(evalDrop) > MistakeDrop THEN "mistake"
    ELSE IF Abs(evalDrop) > InaccuracyDrop THEN "inaccuracy"
    ELSE "none"

\* classifyMistake: "none" stands for null.
ClassifyMistake(evalDrop) ==
    IF Abs(evalDrop) >= BlunderDrop THEN "blunder"
    ELSE IF Abs(evalDrop) >= MistakeDrop THEN "mistake"
    ELSE IF Abs(evalDrop) >= InaccuracyDrop THEN "inaccuracy"
    ELSE "none"

\* The perspective adjustment without the negation for black.
AdjustedWhiteOnly(playerColor, eval) == eval

\* playerColor === 'white' ? eval : -eval
Adjusted(playerColor, eval) ==
    IF playerColor = "white" THEN eval ELSE 0 - eval

\* The accuracy of a move without the floor at 0.
MoveAccuracyUnclamped(evalDrop) ==
    IF evalDrop > 0 THEN FullAccuracy - evalDrop * AccuracySlope
    ELSE FullAccuracy

\* let moveAccuracy = 100; if (evalDrop > 0) moveAccuracy = Math.max(0, ...)
MoveAccuracy(evalDrop) ==
    IF evalDrop > 0 THEN Max(0, FullAccuracy - evalDrop * AccuracySlope)
    ELSE FullAccuracy

\* What the loop body computes for one ply of the analysed player from the
\* previous evaluation and the evaluation after the move.
PlyVerdict(playerColor, previousEval, evalAfterMove) ==
    LET adjustedPrevEval == Adjusted(playerColor, previousEval)
        adjustedCurrentEval == Adjusted(playerColor, evalAfterMove)
        evalDrop == adjustedPrevEval - adjustedCurrentEval
    IN  [adjustedPrevEval |-> adjustedPrevEval,
         adjustedCurrentEval |-> adjustedCurrentEval,
         evalDrop |-> evalDrop,
         moveAccuracy |-> MoveAccuracy(evalDrop),
         severity |-> ClassifyMistake(evalDrop)]

\* ---------------------------------------------------------------------
\* The pure functions applied to inputs drawn from bounded sets
\* ---------------------------------------------------------------------

\* 'info depth' lines with every score the numeric tokens allow.
ScoreLines ==
    { <<"info", "depth", d, "score", k, v>> \o rest :
        d \in {"1", "2"}, k \in {"cp", "mate"}, v \in DOMAIN NumTable,
        rest \in { <<>>, <<"pv", "e2e4">>, <<"nodes", "30">> } }

\* Evaluation drops around every threshold of the analyzer, of both signs.
Drops ==
    LET marks == {0, InaccuracyDrop, PawnUnit, MistakeDrop, BlunderDrop,
                  5 * PawnUnit, 6 * PawnUnit, 2 * MateEval * PawnUnit}
    IN  { sgn * t + o : sgn \in {0 - 1, 1}, t \in marks, o \in {0 - 1, 0, 1} }

\* Evaluations the engine reports: centipawn scores and the mate extremes.
Scores ==
    {0 - MateEval * PawnUnit, 0 - BlunderDrop, 0 - 45, 0, 30, InaccuracyDrop,
     MistakeDrop, MateEval * PawnUnit}

\* Ply indices on both sides of move 10, and the piece counts of a board.
PlyIndices == 0..23
PieceCounts == 2..32

\* messageHandler is given one line on a closure whose evaluation is e.
ApplyMessageHandler ==
    /\ fn.op = "none"
    /\ \E l \in ScoreLines \cup InfoLines, e \in {0, 55} :
          LET c == [NewCall(AnalyzeDepth, "pending") EXCEPT !.evaluation = e]
          IN  fn' = [op |-> "messageHandler", line |-> l, before |-> c,
                     after |-> MessageHandler(c, l)]
    /\ UNCHANGED <<hasWindow, worker, ready, messageQueue, workers, inits,
                   calls, microtasks, nmsgs, last, ga, post, runs>>

\* classifyMistake is given one evaluation drop.
ApplyClassifyMistake ==
    /\ fn.op = "none"
    /\ \E d \in Drops :
          fn' = [op |-> "classifyMistake", evalDrop |-> d,
                 severity |-> ClassifyMistake(d)]
    /\ UNCHANGED <<hasWindow, worker, ready, messageQueue, workers, inits,
                   calls, microtasks, nmsgs, last, ga, post, runs>>

\* The accuracy of a move is computed for two evaluation drops.
ApplyMoveAccuracy ==
    /\ fn.op = "none"
    /\ \E d1, d2 \in Drops :
          fn' = [op |-> "moveAccuracy", evalDrop |-> <<d1, d2>>,
                 moveAccuracy |-> <<MoveAccuracy(d1), MoveAccuracy(d2)>>]
    /\ UNCHANGED <<hasWindow, worker, ready, messageQueue, workers, inits,
                   calls, microtasks, nmsgs, last, ga, post, runs>>

\* One ply is judged twice: for white on the engine's scores, and for black
\* on the negated scores.
ApplyBothColors ==
    /\ fn.op = "none"
    /\ \E p, a \in Scores :
          fn' = [op |-> "bothColors", previousEval |-> p, evalAfterMove |-> a,
                 white |-> PlyVerdict("white", p, a),
                 black |-> PlyVerdict("black", 0 - p, 0 - a)]
    /\ UNCHANGED <<hasWindow, worker, ready, messageQueue, workers, inits,
                   calls, microtasks, nmsgs, last, ga, post, runs>>

\* The phase of ply i is determined as the loop body does: from the move
\* number Math.floor(i / 2) + 1 and the pieces on the board after the move,
\* which has taken a piece or not.
ApplyDeterminePhase ==
    /\ fn.op = "none"
    /\ \E i \in PlyIndices, before \in PieceCounts, taken \in {0, 1} :
          /\ before - taken \in PieceCounts
          /\ fn' = [op |-> "determinePhase", i |-> i, piecesBefore |-> before,
                    piecesAfter |-> before - taken,
                    phase |-> DeterminePhase((i \div 2) + 1, before - taken)]
    /\ UNCHANGED <<hasWindow, worker, ready, messageQueue, workers, inits,
                   calls, microtasks, nmsgs, last, ga, post, runs>>

\* The 'info depth' lines given to a handler in a whole search.
SearchLines ==
    InfoLines
    \cup { <<"info", "depth", "1", "score", k, v>> :
             k \in {"cp", "mate"}, v \in DOMAIN NumTable }

\* The closure after messageHandler has been called with each line in turn.
RECURSIVE HandleAll(_, _)
HandleAll(c, lines) ==
    IF lines = <<>> THEN c
    ELSE HandleAll(MessageHandler(c, Head(lines)), Tail(lines))

\* The handler of a new analyze call is given the output of one search: up
\* to two 'info depth' lines and the result line.
ApplySearch ==
    /\ fn.op = "none"
    /\ \E infos \in {<<>>} \cup {<<l>> : l \in SearchLines}
                      \cup {<<l1, l2>> : l1, l2 \in SearchLines},
          result \in ResultLines :
          fn' = [op |-> "search", lines |-> infos \o <<result>>,
                 after |-> HandleAll(NewCall(AnalyzeDepth, "pending"),
                                     infos \o <<result>>)]
    /\ UNCHANGED <<hasWindow, worker, ready, messageQueue, workers, inits,
                   calls, microtasks, nmsgs, last, ga, post, runs>>

FunctionNext ==
    \/ ApplySearch
    \/ ApplyMessageHandler
    \/ ApplyClassifyMistake
    \/ ApplyMoveAccuracy
    \/ ApplyBothColors
    \/ ApplyDeterminePhase

FunctionSpec == Init /\ [][FunctionNext]_vars

\* ---------------------------------------------------------------------
\* GameAnalyzer.analyzeGame (src/unnamed/part_011)
\* ---------------------------------------------------------------------
\* One run of analyzeGame.  Each action is one task: the code from one
\* `await` to the next.  The engine is seen from outside here: its promises
\* resolve with the results of resolved analyze calls, and the scores it
\* reports are an input of the run.

AnalysisDepth == 15     \* this.engine.analyze(fenBeforeMove, 15)
EvaluationDepth == 12   \* this.engine.evaluatePosition(fenAfterMove, 12)
StartPieces == 32       \* the pieces of new Chess()

Phases == {"opening", "middlegame", "endgame"}
Colors == {"white", "black"}

\* The pieces on the board after k plies of the game: from the third ply on
\* a piece is taken and retaken every four plies.
PiecesAfter(k) ==
    StartPieces - 2 * (k \div 4) - (IF k % 4 = 3 THEN 1 ELSE 0)

\* chess.history({ verbose: true }) of a game of n plies.
HistoryOf(n) == [k \in 1..n |-> [san |-> k, pieces |-> PiecesAfter(k)]]

\* A PGN text: the plies that can be replayed, and whether the text ends
\* there (legal) or goes on with a move that cannot be played.
Pgns == [legal : BOOLEAN, plies : 0..MaxPlies]

\* The scores of the engine during a run: for the analysed player's plies in
\* turn, the evaluation before the move and the evaluation after it.  They
\* repeat with period two.
GameScores == {0 - 2 * PawnUnit, InaccuracyDrop, BlunderDrop}
Scripts ==
    [before : GameScores \X GameScores, after : GameScores \X GameScores]

\* A loadPgn that stops at the bad move without throwing.
LoadPgnLenient(pgn) == [threw |-> FALSE, history |-> HistoryOf(pgn.plies)]

\* chess.loadPgn(pgn): chess.js 1.4.0 throws on move text it cannot replay.
LoadPgn(pgn) ==
    IF pgn.legal
    THEN [threw |-> FALSE, history |-> HistoryOf(pgn.plies)]
    ELSE [threw |-> TRUE, history |-> <<>>]

\* A test that takes every ply for a ply of the analysed player.
IsPlayerMoveAlways(playerColor, i) == TRUE

IsPlayerMove(playerColor, i) ==
    \/ playerColor = "white" /\ i % 2 = 0
    \/ playerColor = "black" /\ i % 2 = 1

\* total > 0 ? sum / total : 0, as an exact fraction.
Quotient(sum, total) ==
    IF total > 0 THEN [num |-> sum, den |-> total] ELSE [num |-> 0, den |-> 1]

\* The record of a resolved analyze call that found evaluation e.
ResolvedCall(depth, e) ==
    [NewCall(depth, "resolved") EXCEPT !.bestMove = "e2e4", !.evaluation = e]

\* The scores the engine reports for the ply the run is at.
ScoresNow(g) ==
    [before |-> g.script.before[(g.totalMoves % 2) + 1],
     after |-> g.script.after[(g.totalMoves % 2) + 1]]

\* The local variables of analyzeGame at its start.
NewRun(pgn, playerColor, script) ==
    [pc |-> "initialize", pgn |-> pgn, playerColor |-> playerColor,
     script |-> script, history |-> <<>>, i |-> 0,
     blunders |-> 0, mistakes |-> 0, inaccuracies |-> 0, brilliantMoves |-> 0,
     mistakesList |-> <<>>, previousEval |-> 0, totalMoves |-> 0,
     totalAccuracy |-> 0,
     phases |-> [ph \in Phases |-> [accuracy |-> 0, moves |-> 0]],
     analysis |-> <<>>, requests |-> 0, terminated |-> FALSE,
     report |-> <<>>, plies |-> <<>>, applied |-> <<>>, asked |-> <<>>]

\* A report whose phase accuracies are divided by the number of all moves.
ReportOverAllMoves(g) ==
    [averageAccuracy |-> Quotient(g.totalAccuracy, g.totalMoves),
     blunders |-> g.blunders, mistakes |-> g.mistakes,
     inaccuracies |-> g.inaccuracies, brilliantMoves |-> g.brilliantMoves,
     mistakesList |-> g.mistakesList,
     phase |-> [ph \in Phases |->
                  [accuracy |-> Quotient(g.phases[ph].accuracy, g.totalMoves),
                   moves |-> g.phases[ph].moves]]]

\* The object analyzeGame returns; phase[ph] stands for the three fields
\* openingPhase, middlegamePhase and endgamePhase.
Report(g) ==
    [averageAccuracy |-> Quotient(g.totalAccuracy, g.totalMoves),
     blunders |-> g.blunders, mistakes |-> g.mistakes,
     inaccuracies |-> g.inaccuracies, brilliantMoves |-> g.brilliantMoves,
     mistakesList |-> g.mistakesList,
     phase |-> [ph \in Phases |->
                  [accuracy |-> Quotient(g.phases[ph].accuracy,
                                         g.phases[ph].moves),
                   moves |-> g.phases[ph].moves]]]

\* A loop that carries the evaluation analyze gave before the move.
PreviousEvalFromAnalysis(analysis, evalAfterMove) == analysis.evaluation

\* previousEval = evalAfterMove, at the end of the loop body.
NextPreviousEval(analysis, evalAfterMove) == evalAfterMove

\* A test that takes every severity, null included, for a mistake.
IsMistakeAlways(severity) == TRUE

\* if (severity): null is falsy, the three severities are truthy.
IsMistake(severity) == severity # "none"

\* The loop body after evaluatePosition has resolved with evalAfterMove,
\* for the ply at index i.  plies is history: what was computed for each
\* ply of the analysed player.
AnalyzePly(g, evalAfterMove) ==
    LET v == PlyVerdict(g.playerColor, g.previousEval, evalAfterMove)
        pieces == g.history[g.i + 1].pieces
        moveNumber == (g.i \div 2) + 1
        phase == DeterminePhase(moveNumber, pieces)
        record == [moveNumber |-> moveNumber, fen |-> g.i,
                   playedMove |-> g.history[g.i + 1].san,
                   bestMove |-> g.analysis.move,
                   evaluation |-> v.adjustedCurrentEval,
                   previousEval |-> v.adjustedPrevEval,
                   severity |-> v.severity, phase |-> phase]
    IN  [g EXCEPT
            !.totalAccuracy = @ + v.moveAccuracy,
            !.totalMoves = @ + 1,
            !.phases[phase] = [accuracy |-> @.accuracy + v.moveAccuracy,
                               moves |-> @.moves + 1],
            !.blunders = IF v.severity = "blunder" THEN @ + 1 ELSE @,
            !.mistakes = IF v.severity = "mistake" THEN @ + 1 ELSE @,
            !.inaccuracies = IF v.severity = "inaccuracy" THEN @ + 1 ELSE @,
            !.mistakesList = IF IsMistake(v.severity) THEN Append(@, record) ELSE @,
            !.brilliantMoves =
                IF ~IsMistake(v.severity) /\ v.evalDrop < BrilliantDrop
                THEN @ + 1 ELSE @,
            !.previousEval = NextPreviousEval(g.analysis, evalAfterMove),
            !.plies = Append(@, [i |-> g.i, evalBefore |-> g.analysis.evaluation,
                                 evalAfter |-> evalAfterMove,
                                 evalDrop |-> v.evalDrop,
                                 moveAccuracy |-> v.moveAccuracy,
                                 severity |-> v.severity, phase |-> phase])]

\* The indices a, a + 1, ..., b in order.
Range(a, b) == [k \in 1..(b - a + 1) |-> a + k - 1]

\* The for loop from index g.i on: plies of the other player are replayed
\* and skipped; at a ply of the analysed player analyze is called; after the
\* last ply the engine is terminated and the report returned.  As history,
\* applied lists the plies given to chess.move, and asked the calls of
\* analyze and evaluatePosition with the number of plies applied then.
Continue(g) ==
    LET n == Len(g.history)
        mine == {j \in g.i..(n - 1) : IsPlayerMove(g.playerColor, j)}
    IN  IF mine = {}
        THEN [g EXCEPT !.i = n, !.pc = "returned", !.terminated = TRUE,
                       !.report = Report(g),
                       !.applied = @ \o Range(g.i, n - 1)]
        ELSE [g EXCEPT !.i = Leftmost(mine), !.pc = "analyze",
                       !.requests = @ + 1,
                       !.applied = @ \o Range(g.i, Leftmost(mine) - 1),
                       !.asked = Append(@, [op |-> "analyze", i |-> Leftmost(mine),
                                            moved |-> Leftmost(mine)])]

\* analyze has resolved with result: the move is played and
\* evaluatePosition is called.
Analyzed(g, result) ==
    [g EXCEPT !.analysis = result,
              !.pc = "evaluatePosition",
              !.requests = @ + 1,
              !.applied = Append(@, g.i),
              !.asked = Append(@, [op |-> "evaluatePosition", i |-> g.i,
                                   moved |-> Len(g.applied) + 1])]

\* analyzeGame(pgn, playerColor) is called and awaits this.initialize().
AnalyzeGame ==
    /\ ga.pc = "idle"
    /\ \E pgn \in Pgns, playerColor \in Colors, script \in Scripts :
          ga' = NewRun(pgn, playerColor, script)
    /\ UNCHANGED <<hasWindow, worker, ready, messageQueue, workers, inits,
                   calls, microtasks, nmsgs, last, fn, post, runs>>

\* initialize() has resolved: the PGN is loaded and the loop entered.
AfterInitialize ==
    /\ ga.pc = "initialize"
    /\ LET l == LoadPgn(ga.pgn)
       IN  ga' = IF l.threw THEN [ga EXCEPT !.pc = "threw"]
                 ELSE Continue([ga EXCEPT !.history = l.history])
    /\ UNCHANGED <<hasWindow, worker, ready, messageQueue, workers, inits,
                   calls, microtasks, nmsgs, last, fn, post, runs>>

\* analyze(fenBeforeMove, 15) has resolved: the move is played and
\* evaluatePosition(fenAfterMove, 12) is called.  Without a window the
\* engine has no worker and the promise never resolves.
AfterAnalyze ==
    /\ ga.pc = "analyze"
    /\ hasWindow
    /\ ga' = Analyzed(ga, Result(ResolvedCall(AnalysisDepth, ScoresNow(ga).before)))
    /\ UNCHANGED <<hasWindow, worker, ready, messageQueue, workers, inits,
                   calls, microtasks, nmsgs, last, fn, post, runs>>

\* evaluatePosition has resolved: the ply is judged and the loop goes on.
AfterEvaluatePosition ==
    /\ ga.pc = "evaluatePosition"
    /\ hasWindow
    /\ LET evalAfterMove ==
               EvaluatePosition(ResolvedCall(EvaluationDepth, ScoresNow(ga).after))
       IN  ga' = Continue([AnalyzePly(ga, evalAfterMove) EXCEPT !.i = @ + 1])
    /\ UNCHANGED <<hasWindow, worker, ready, messageQueue, workers, inits,
                   calls, microtasks, nmsgs, last, fn, post, runs>>

GameNext ==
    \/ AnalyzeGame
    \/ AfterInitialize
    \/ AfterAnalyze
    \/ AfterEvaluatePosition

GameSpec == Init /\ [][GameNext]_vars

\* ---------------------------------------------------------------------
\* POST /api/analysis (src/app/api/analysis/route.ts)
\* ---------------------------------------------------------------------
\* One request.  The handler makes a GameAnalyzer of its own and awaits
\* analyzeGame, whose run is ga.  The database calls are taken to succeed.

Unauthorized == 401     \* { status: 401 }
BadRequest == 400       \* { status: 400 }
NotFound == 404         \* { status: 404 }
Ok == 200               \* NextResponse.json(...) without a status
ServerError == 500      \* { status: 500 }

\* What the request finds before the analysis: no Bearer token or a bad
\* one, no gameId, no game of this user, a stored analysis, or none.
Requests == {"noToken", "badToken", "noGameId", "noGame", "cached", "fresh"}

\* The status of the early returns.
EarlyStatus(req) ==
    CASE req \in {"noToken", "badToken"} -> Unauthorized
      [] req = "noGameId" -> BadRequest
      [] req = "noGame" -> NotFound
      [] req = "cached" -> Ok

\* A response of the handler.
Response(status, success) == [status |-> status, success |-> success]

\* The handler at `await analyzer.analyzeGame(...)`: the rows of the game
\* in the tables Analysis and Mistake, and game.accuracy (<<>> is null).
Awaiting ==
    [pc |-> "analyzeGame", analysis |-> <<>>, mistakes |-> <<>>,
     accuracy |-> <<>>, response |-> <<>>]

\* A catch block that stores an empty analysis and reports success.
CatchBlockSavingEmpty(p) ==
    [p EXCEPT !.pc = "responded",
              !.analysis = <<[averageAccuracy |-> Quotient(0, 0), blunders |-> 0,
                              mistakes |-> 0, inaccuracies |-> 0]>>,
              !.response = Response(Ok, TRUE)]

\* catch (error): { success: false, message: 'Analysis failed' }, 500.
CatchBlock(p) ==
    [p EXCEPT !.pc = "responded", !.response = Response(ServerError, FALSE)]

\* The code after analyzeGame has returned: the analysis and its mistakes
\* are stored, game.accuracy is updated, the response is sent.
SaveAnalysis(p, analysis) ==
    [p EXCEPT !.pc = "responded",
              !.analysis = <<[averageAccuracy |-> analysis.averageAccuracy,
                              blunders |-> analysis.blunders,
                              mistakes |-> analysis.mistakes,
                              inaccuracies |-> analysis.inaccuracies,
                              brilliantMoves |-> analysis.brilliantMoves,
                              phase |-> analysis.phase]>>,
              !.mistakes = analysis.mistakesList,
              !.accuracy = <<analysis.averageAccuracy>>,
              !.response = Response(Ok, TRUE)]

\* The request arrives: the handler returns early, or calls analyzeGame
\* with the PGN and the colour of the game.
Post ==
    /\ post.pc = "idle"
    /\ ga.pc = "idle"
    /\ \E req \in Requests :
          IF req # "fresh"
          THEN /\ post' = [pc |-> "responded", analysis |-> <<>>, mistakes |-> <<>>,
                           accuracy |-> <<>>,
                           response |-> Response(EarlyStatus(req), req = "cached")]
               /\ UNCHANGED ga
          ELSE /\ post' = Awaiting
               /\ \E pgn \in Pgns, playerColor \in Colors, script \in Scripts :
                     ga' = NewRun(pgn, playerColor, script)
    /\ UNCHANGED <<hasWindow, worker, ready, messageQueue, workers, inits,
                   calls, microtasks, nmsgs, last, fn, runs>>

\* analyzeGame has returned its report.
PostReturned ==
    /\ post.pc = "analyzeGame"
    /\ ga.pc = "returned"
    /\ post' = SaveAnalysis(post, ga.report)
    /\ UNCHANGED <<hasWindow, worker, ready, messageQueue, workers, inits,
                   calls, microtasks, nmsgs, last, fn, ga, runs>>

\* analyzeGame has thrown.
PostThrew ==
    /\ post.pc = "analyzeGame"
    /\ ga.pc = "threw"
    /\ post' = CatchBlock(post)
    /\ UNCHANGED <<hasWindow, worker, ready, messageQueue, workers, inits,
                   calls, microtasks, nmsgs, last, fn, ga, runs>>

RouteNext ==
    \/ Post
    \/ AfterInitialize
    \/ AfterAnalyze
    \/ AfterEvaluatePosition
    \/ PostReturned
    \/ PostThrew

RouteSpec == Init /\ [][RouteNext]_vars

\* ---------------------------------------------------------------------
\* analyzeGame on the modelled engine
\* ---------------------------------------------------------------------
\* Runs of analyzeGame on one GameAnalyzer, whose calls of initialize,
\* analyze, evaluatePosition and terminate act on the engine modelled above;
\* the scores come from the lines the workers post.  runs[r].g holds the
\* local variables of run r as ga does, runs[r].awaits the promise the run
\* awaits: an index of inits or of calls.

\* The games given to these runs.
ShortPgns == {pgn \in Pgns : pgn.plies <= MaxShortPlies}

\* The scores in g.script are not used here.
NoScript == [before |-> <<0, 0>>, after |-> <<0, 0>>]

\* The promise run r awaits has settled: its continuation is a microtask.
Resumable(r) ==
    LET g == runs[r].g
    IN  \/ g.pc = "initialize" /\ inits[runs[r].awaits].state = "resolved"
        \/ /\ g.pc \in {"analyze", "evaluatePosition"}
           /\ calls[runs[r].awaits].pc = "resolved"

\* No run has a continuation to run before the next task.
RunsQuiet == \A r \in DOMAIN runs : ~Resumable(r)

\* this.engine.analyze(fen, depth), and evaluatePosition which calls it.
EngineAnalyze(depth) ==
    LET c == Len(calls) + 1
    IN  /\ IF ready
           THEN /\ calls' = Append(calls, NewCall(depth, "pending"))
                /\ messageQueue' = Append(messageQueue, c)
                /\ workers' = Register(workers, worker, c, depth)
                /\ UNCHANGED <<worker, inits, microtasks>>
           ELSE /\ Initialize(c)
                /\ calls' = Append(calls, NewCall(depth, "awaitInit"))
                /\ UNCHANGED messageQueue
        /\ UNCHANGED ready

\* this.engine.terminate()
EngineTerminate ==
    IF worker # 0
    THEN /\ workers' = [workers EXCEPT ![worker].alive = FALSE]
         /\ worker' = 0
         /\ ready' = FALSE
         /\ calls' = [c \in DOMAIN calls |->
                         IF calls[c].pc \in {"awaitInit", "pending"} /\ calls[c].cutAt < 0
                         THEN [calls[c] EXCEPT !.cutAt = Len(workers)]
                         ELSE calls[c]]
         /\ UNCHANGED <<messageQueue, inits, microtasks>>
    ELSE UNCHANGED <<worker, ready, messageQueue, workers, inits, calls, microtasks>>

\* The call a run makes on the engine when it reaches position pc.
EngineCall(pc) ==
    CASE pc = "analyze" -> EngineAnalyze(AnalysisDepth)
      [] pc = "evaluatePosition" -> EngineAnalyze(EvaluationDepth)
      [] pc = "returned" -> EngineTerminate
      [] pc = "threw" ->
            UNCHANGED <<worker, ready, messageQueue, workers, inits, calls, microtasks>>

\* Run r goes on as g1 and makes the call of its new position.
GoOn(r, g1) ==
    /\ runs' = [runs EXCEPT ![r] =
                   [g |-> g1,
                    awaits |-> IF g1.pc \in {"analyze", "evaluatePosition"}
                               THEN Len(calls) + 1 ELSE 0]]
    /\ EngineCall(g1.pc)
    /\ UNCHANGED <<hasWindow, nmsgs, last, fn, ga, post>>

\* analyzeGame is called on the analyzer and calls this.engine.initialize().
StartRun ==
    /\ microtasks = <<>>
    /\ RunsQuiet
    /\ Len(runs) < MaxRuns
    /\ \E pgn \in ShortPgns, playerColor \in Colors :
          runs' = Append(runs, [g |-> NewRun(pgn, playerColor, NoScript),
                                awaits |-> Len(inits) + 1])
    /\ Initialize(0)
    /\ UNCHANGED <<hasWindow, ready, messageQueue, calls, nmsgs, last, fn, ga, post>>

\* initialize() has resolved for run r.
RunAfterInitialize(r) ==
    /\ microtasks = <<>>
    /\ Resumable(r)
    /\ runs[r].g.pc = "initialize"
    /\ LET g == runs[r].g
           l == LoadPgn(g.pgn)
       IN  GoOn(r, IF l.threw THEN [g EXCEPT !.pc = "threw"]
                   ELSE Continue([g EXCEPT !.history = l.history]))

\* analyze has resolved for run r.
RunAfterAnalyze(r) ==
    /\ microtasks = <<>>
    /\ Resumable(r)
    /\ runs[r].g.pc = "analyze"
    /\ GoOn(r, Analyzed(runs[r].g, Result(calls[runs[r].awaits])))

\* evaluatePosition has resolved for run r.
RunAfterEvaluatePosition(r) ==
    /\ microtasks = <<>>
    /\ Resumable(r)
    /\ runs[r].g.pc = "evaluatePosition"
    /\ LET evalAfterMove == EvaluatePosition(calls[runs[r].awaits])
       IN  GoOn(r, Continue([AnalyzePly(runs[r].g, evalAfterMove) EXCEPT !.i = @ + 1]))

\* A worker message arrives when no continuation is left to run.
Deliver(w, m) == RunsQuiet /\ OnMessage(w, m)

SharedNext ==
    \/ StartRun
    \/ \E r \in DOMAIN runs : RunAfterInitialize(r)
    \/ \E r \in DOMAIN runs : RunAfterAnalyze(r)
    \/ \E r \in DOMAIN runs : RunAfterEvaluatePosition(r)
    \/ ResumeAnalyze
    \/ \E w \in DOMAIN workers : \E m \in Emittable(w) : Deliver(w, m)

SharedSpec == Init /\ [][SharedNext]_vars

\* ---------------------------------------------------------------------
\* Vocabulary of the claims
\* ---------------------------------------------------------------------

\* The promise of call r has not settled / has settled.  The code never
\* rejects a promise, so no call ever reaches "rejected".
Unsettled(r) == calls[r].pc \in {"awaitInit", "pending"}
Settled(r) == calls[r].pc \in {"resolved", "rejected"}

\* A 'position' or 'go' command of call r has been written to some worker.
Written(r) ==
    \E w \in DOMAIN workers :
        \E i \in DOMAIN workers[w].log : workers[w].log[i].req = r

\* The step is an onmessage callback that passed its message to a handler.
Delivered == nmsgs' # nmsgs /\ last'.to # 0

\* The line grammar of the protocol: an intermediate line is 'info depth N'
\* with optional 'score cp|mate V' and 'pv m1 m2 ...' fields, each introduced
\* by its keyword as a token of its own; a result line is 'bestmove M'.
IsInfoLine(l) ==
    Len(l) >= 3 /\ l[1] = "info" /\ l[2] = "depth" /\ IsDigits(l[3])
IsResultLine(l) == Len(l) >= 2 /\ l[1] = "bestmove"
FieldAt(l, key) == Leftmost({i \in 1..Len(l) - 1 : l[i] = key})
LineDepth(l) == ParseInt(l[3])
HasScore(l) ==
    /\ FieldAt(l, "score") # 0
    /\ FieldAt(l, "score") + 1 < Len(l)
    /\ l[FieldAt(l, "score") + 1] \in {"cp", "mate"}
LineScoreValue(l) == ParseInt(l[FieldAt(l, "score") + 2])
LineScore(l) ==
    IF l[FieldAt(l, "score") + 1] = "cp" THEN LineScoreValue(l)
    ELSE IF LineScoreValue(l) > 0 THEN MateEval * PawnUnit
    ELSE 0 - MateEval * PawnUnit
HasPv(l) == FieldAt(l, "pv") # 0
LinePv(l) == SubSeq(l, FieldAt(l, "pv") + 1, Len(l))

\* ---------------------------------------------------------------------
\* Claims
\* ---------------------------------------------------------------------

\* C1: of two analyze calls on one engine, the second issued while the first
\* is pending, the 'position' and 'go' commands of the second are written to
\* the worker only after the promise of the first has settled; so in no
\* state are the commands of a later call written while an earlier call,
\* whose commands are written too, is unsettled.  (Stated for an engine that
\* has created one worker only.)
C1_SecondWrittenAfterFirstSettles ==
    \A r1, r2 \in DOMAIN calls :
        (Len(workers) = 1 /\ r1 < r2 /\ Written(r1) /\ Written(r2)) => Settled(r1)

\* C2: with two analyze calls pending on one worker, every line of a search,
\* its 'bestmove' line included, is delivered to the handler of the call
\* that search belongs to and to no other handler, so a call resolves with
\* the result of its own search.  (Stated for an engine that has created one
\* worker only, and for a line whose own handler is in the queue, so that
\* neither a handler of an earlier worker nor a lost handler is involved.)
C2_LinesReachOwnHandler ==
    [][ (Delivered /\ Len(workers) = 1
            /\ \E i \in DOMAIN messageQueue : messageQueue[i] = last'.tag)
        => last'.to = last'.tag ]_vars

\* C3: a call that is pending when terminate() stops the engine has its
\* promise rejected (EngineTerminated); it does not stay pending.
C3_TerminateRejectsPending ==
    \A r \in DOMAIN calls : calls[r].cutAt >= 0 => calls[r].pc = "rejected"

\* C4: the handler of a call that was pending when terminate() ran never
\* receives a line from a worker created after that terminate(), so the
\* call is not resolved from the output of the new worker.
C4_NoStaleResolution ==
    (last.to # 0 /\ calls[last.to].cutAt >= 0)
        => last.worker <= calls[last.to].cutAt

\* C5: every analyze call eventually settles, also when the worker never
\* posts a 'bestmove' line or there is no worker at all (a timeout fails it).
C5_EveryCallSettles ==
    \A r \in 1..MaxOps :
        (r \in DOMAIN calls /\ Unsettled(r)) ~> (r \in DOMAIN calls /\ Settled(r))

\* C6: analyze called on an engine that terminate() has stopped fails
\* (EngineUnavailable) and starts no new evaluator.
C6_StoppedEngineRefuses ==
    \A r \in DOMAIN calls :
        calls[r].onStopped =>
            /\ calls[r].pc = "rejected"
            /\ \A i \in DOMAIN inits : inits[i].awaiter # r

\* C7: whenever the promise of initialize() resolves, a worker exists and
\* ready is true; without a Worker in the environment it does not resolve.
C7_InitializeResolvesReady ==
    \A i \in DOMAIN inits :
        inits[i].state = "resolved" => (inits[i].hadWorker /\ inits[i].wasReady)

\* C8: for every worker, 'uci' is the first command written to it, and the
\* Threads and Hash options and every 'position' and 'go' command are
\* written to it only after that worker has sent 'uciok'.
C8_HandshakeOrder ==
    \A w \in DOMAIN workers :
        LET log == workers[w].log
        IN  /\ log # <<>> => log[1].cmd = "uci"
            /\ \A i \in DOMAIN log :
                  log[i].cmd \in {"threads", "hash", "position", "go"} => log[i].okd

\* C9: for a single pending call, an 'info depth' line overwrites the depth,
\* the score and the principal variation it carries and leaves the fields it
\* lacks as they were, and 'bestmove M' resolves the promise with move M and
\* the depth, evaluation and pv stored by then.
C9_LaterLinesOverwrite ==
    [][ (Delivered /\ messageQueue = <<last'.to>>
            /\ \A r \in DOMAIN calls : Unsettled(r) <=> r = last'.to)
        => LET l == last'.line
               c == calls[last'.to]
               d == calls'[last'.to]
           IN  /\ IsInfoLine(l) =>
                    /\ d.currentDepth = LineDepth(l)
                    /\ d.evaluation = IF HasScore(l) THEN LineScore(l)
                                      ELSE c.evaluation
                    /\ d.pv = IF HasPv(l) THEN LinePv(l) ELSE c.pv
                    /\ d.pc = "pending"
               /\ IsResultLine(l) =>
                    /\ d.pc = "resolved"
                    /\ Result(d).move = l[2]
                    /\ Result(d).depth = c.currentDepth
                    /\ Result(d).evaluation = c.evaluation
                    /\ Result(d).pv = c.pv ]_vars

\* C10: a line that is neither an 'info depth' line nor a 'bestmove M' line
\* (a 'bestmove' without a move included) leaves the accumulator of the call
\* unchanged and the call pending with its handler still queued.
C10_MalformedLinesIgnored ==
    [][ (Delivered /\ calls[last'.to].pc = "pending"
            /\ ~IsInfoLine(last'.line) /\ ~IsResultLine(last'.line))
        => /\ calls'[last'.to] = calls[last'.to]
           /\ \E i \in DOMAIN messageQueue' : messageQueue'[i] = last'.to ]_vars

\* The sum of the accuracies of the plies of sequence ps that are in phase
\* ph, or in any phase when ph is "all"; and their number.
RECURSIVE AccuracySum(_, _)
AccuracySum(ps, ph) ==
    IF ps = <<>> THEN 0
    ELSE (IF ph = "all" \/ Head(ps).phase = ph THEN Head(ps).moveAccuracy ELSE 0)
         + AccuracySum(Tail(ps), ph)
PlyCount(ps, ph) ==
    Cardinality({k \in DOMAIN ps : ph = "all" \/ ps[k].phase = ph})

\* Fraction q is the average of the accuracies of the plies of ps in phase
\* ph, and 0 when there is no such ply.
IsAverage(q, ps, ph) ==
    /\ q.den > 0
    /\ IF PlyCount(ps, ph) = 0 THEN q.num = 0
       ELSE q.num * PlyCount(ps, ph) = AccuracySum(ps, ph) * q.den

\* The plies of the analysed player that were given a severity.
Mistaken(ps) == SelectSeq(ps, LAMBDA ply : ply.severity # "none")

\* C11: when messageHandler parses an 'info depth' line with a score, a
\* 'score mate N' sets the evaluation to exactly +100 pawns if N > 0 and to
\* exactly -100 pawns if N < 0, whatever |N| is, and a 'score cp C' sets it
\* to C hundredths of a pawn.
C11_MateSaturates ==
    (fn.op = "messageHandler" /\ IsInfoLine(fn.line) /\ HasScore(fn.line)) =>
        LET kind == fn.line[FieldAt(fn.line, "score") + 1]
            n == LineScoreValue(fn.line)
        IN  /\ (kind = "mate" /\ n > 0) =>
                    fn.after.evaluation = MateEval * PawnUnit
            /\ (kind = "mate" /\ n < 0) =>
                    fn.after.evaluation = 0 - MateEval * PawnUnit
            /\ kind = "cp" => fn.after.evaluation = n

\* A 'score mate 3' line has been parsed on a closure whose evaluation was
\* 0.55 pawns.
C11_Witness ==
    /\ fn.op = "messageHandler"
    /\ fn.line = <<"info", "depth", "2", "score", "mate", "3">>
    /\ fn.before.evaluation = 55
    /\ fn.after.evaluation = MateEval * PawnUnit

\* C12: for every ply of the analysed player, the evaluation drop that is
\* classified equals the adjusted evaluation analyze returned for the
\* position before the move minus the adjusted evaluation evaluatePosition
\* returned for the position after it.
C12_DropFromAnalyzeOfSamePly ==
    ga.pc # "idle" =>
        \A k \in DOMAIN ga.plies :
            ga.plies[k].evalDrop =
                Adjusted(ga.playerColor, ga.plies[k].evalBefore)
                - Adjusted(ga.playerColor, ga.plies[k].evalAfter)

\* C13: judging a ply for white on the engine's scores and for black on the
\* negated scores gives the same evaluation drop, the same severity and the
\* same accuracy.
C13_PerspectiveSymmetric ==
    fn.op = "bothColors" =>
        /\ fn.white.evalDrop = fn.black.evalDrop
        /\ fn.white.severity = fn.black.severity
        /\ fn.white.moveAccuracy = fn.black.moveAccuracy

\* A ply that goes from +0.30 to -3.00 has been judged for both colours and
\* is a blunder for both.
C13_Witness ==
    /\ fn.op = "bothColors"
    /\ fn.previousEval = 30
    /\ fn.evalAfterMove = 0 - 300
    /\ fn.white.severity = "blunder"
    /\ fn.black.severity = "blunder"

\* C14: the severity depends on the absolute evaluation drop with inclusive
\* thresholds: at least 3.00 pawns is a blunder, from 1.50 to below 3.00 a
\* mistake, from 0.50 to below 1.50 an inaccuracy, below 0.50 none.
C14_InclusiveThresholds ==
    fn.op = "classifyMistake" =>
        LET a == IF fn.evalDrop < 0 THEN 0 - fn.evalDrop ELSE fn.evalDrop
        IN  /\ a >= 300 => fn.severity = "blunder"
            /\ (150 <= a /\ a < 300) => fn.severity = "mistake"
            /\ (50 <= a /\ a < 150) => fn.severity = "inaccuracy"
            /\ a < 50 => fn.severity = "none"

\* A drop of exactly 1.50 pawns has been classified, as a mistake.
C14_Witness ==
    fn.op = "classifyMistake" /\ fn.evalDrop = 150 /\ fn.severity = "mistake"

\* C15: in every report brilliantMoves is the number of plies of the
\* analysed player whose evaluation drop is below -1.00 pawn, and none of
\* these plies has a record in the mistake list.
C15_BrilliantCounted ==
    ga.pc = "returned" =>
        LET brilliant == {k \in DOMAIN ga.plies : ga.plies[k].evalDrop < 0 - 100}
        IN  /\ ga.report.brilliantMoves = Cardinality(brilliant)
            /\ \A k \in brilliant : \A j \in DOMAIN ga.report.mistakesList :
                   ga.report.mistakesList[j].fen # ga.plies[k].i

\* C16: the accuracy of a move is 100 when the drop is at most 0 and
\* max(0, 100 - 20 * drop) otherwise; it lies in [0, 100], is 0 from a drop
\* of 5.00 pawns on, and does not increase when the drop increases.
C16_AccuracyFormula ==
    fn.op = "moveAccuracy" =>
        /\ \A k \in 1..2 :
              LET d == fn.evalDrop[k]
                  acc == fn.moveAccuracy[k]
              IN  /\ d <= 0 => acc = 10000
                  /\ d > 0 => acc = (IF 10000 - 20 * d > 0 THEN 10000 - 20 * d ELSE 0)
                  /\ acc \in 0..10000
                  /\ d >= 500 => acc = 0
        /\ fn.evalDrop[1] <= fn.evalDrop[2] => fn.moveAccuracy[1] >= fn.moveAccuracy[2]

\* The accuracy has been computed for drops of 1.50 and 5.01 pawns: 70 and 0.
C16_Witness ==
    /\ fn.op = "moveAccuracy"
    /\ fn.evalDrop = <<150, 501>>
    /\ fn.moveAccuracy = <<7000, 0>>

\* C17: with the move number floor(i / 2) + 1 and the pieces counted after
\* the move, a ply of move 10 or earlier is in the opening, a ply of move 11
\* or later is in the endgame with at most 12 pieces and in the middlegame
\* with at least 13.
C17_PhaseBoundaries ==
    fn.op = "determinePhase" =>
        LET moveNumber == (fn.i \div 2) + 1
        IN  /\ moveNumber <= 10 => fn.phase = "opening"
            /\ (moveNumber >= 11 /\ fn.piecesAfter <= 12) => fn.phase = "endgame"
            /\ (moveNumber >= 11 /\ fn.piecesAfter >= 13) => fn.phase = "middlegame"

\* The first ply of move 11 takes the thirteenth piece left and is in the
\* endgame.
C17_Witness ==
    /\ fn.op = "determinePhase"
    /\ fn.i = 20
    /\ fn.piecesBefore = 13
    /\ fn.piecesAfter = 12
    /\ fn.phase = "endgame"

\* C18: in the returned report the accuracy of each phase is the average of
\* the accuracies of the analysed plies of that phase, averageAccuracy is the
\* average over all analysed plies, and an average over no ply is 0.
C18_ReportAverages ==
    ga.pc = "returned" =>
        /\ IsAverage(ga.report.averageAccuracy, ga.plies, "all")
        /\ \A ph \in Phases : IsAverage(ga.report.phase[ph].accuracy, ga.plies, ph)

\* A report of a game with analysed plies in the opening and the middlegame
\* and none in the endgame, whose opening accuracy is below 100.
C18_Witness ==
    /\ ga.pc = "returned"
    /\ ga.report.phase["opening"].moves > 0
    /\ ga.report.phase["middlegame"].moves > 1
    /\ ga.report.phase["endgame"].moves = 0
    /\ ga.report.phase["opening"].accuracy.num
          < FullAccuracy * ga.report.phase["opening"].accuracy.den
    /\ ga.report.phase["endgame"].accuracy.num = 0

\* C19: the mistake list holds, in the order of the plies, one record for
\* each analysed ply whose severity is not none and nothing else, and the
\* counters blunders, mistakes and inaccuracies are the numbers of records
\* of these severities; the returned report carries this list and counters.
C19_ListMatchesCounters ==
    ga.pc # "idle" =>
        LET ms == Mistaken(ga.plies)
            count(sev) == Cardinality({j \in DOMAIN ga.mistakesList :
                                          ga.mistakesList[j].severity = sev})
        IN  /\ Len(ga.mistakesList) = Len(ms)
            /\ \A j \in DOMAIN ga.mistakesList :
                  /\ ga.mistakesList[j].fen = ms[j].i
                  /\ ga.mistakesList[j].severity = ms[j].severity
            /\ \A j, k \in DOMAIN ga.mistakesList :
                  j < k => ga.mistakesList[j].fen < ga.mistakesList[k].fen
            /\ ga.blunders = count("blunder")
            /\ ga.mistakes = count("mistake")
            /\ ga.inaccuracies = count("inaccuracy")
            /\ ga.blunders + ga.mistakes + ga.inaccuracies = Len(ga.mistakesList)
            /\ ga.pc = "returned" =>
                  /\ ga.report.mistakesList = ga.mistakesList
                  /\ ga.report.blunders = ga.blunders
                  /\ ga.report.mistakes = ga.mistakes
                  /\ ga.report.inaccuracies = ga.inaccuracies

\* A report of three analysed plies of which only the first, a mistake,
\* has a record.
C19_Witness ==
    /\ ga.pc = "returned"
    /\ Len(ga.plies) = 3
    /\ ga.report.mistakes = 1
    /\ Len(ga.report.mistakesList) = 1
    /\ ga.report.mistakesList[1].moveNumber = 1

\* C20: when the PGN text cannot be replayed, analyzeGame throws once
\* initialize has resolved: it returns no report and has called neither
\* analyze nor evaluatePosition, the only senders of 'position' and 'go'.
C20_IllegalPgnThrows ==
    (ga.pc \notin {"idle", "initialize"} /\ ~ga.pgn.legal) =>
        /\ ga.pc = "threw"
        /\ ga.report = <<>>
        /\ ga.requests = 0

\* analyzeGame has thrown on a text whose third move cannot be played, the
\* first being a move of the analysed player.
C20_Witness ==
    /\ ga.pc = "threw"
    /\ ga.pgn.plies = 2
    /\ ga.playerColor = "white"

\* C21: when analyzeGame throws in the POST handler, no Analysis row and no
\* Mistake row is written for the game, game.accuracy keeps its value, and
\* the response, once sent, reports failure with status 500.
C21_FailureNotPersisted ==
    (post.pc # "idle" /\ ga.pc = "threw") =>
        /\ post.analysis = <<>>
        /\ post.mistakes = <<>>
        /\ post.accuracy = <<>>
        /\ post.pc = "responded" =>
              (post.response.status = 500 /\ ~post.response.success)

\* The handler has answered a request whose game text cannot be replayed.
C21_Witness ==
    /\ ga.pc = "threw"
    /\ post.pc = "responded"
    /\ post.response.status = 500
    /\ post.analysis = <<>>

\* Run r has an evaluation request on the engine that has not settled.
Requesting(r) ==
    /\ runs[r].g.pc \in {"analyze", "evaluatePosition"}
    /\ Unsettled(runs[r].awaits)

\* C22: two runs of analyzeGame on one analyzer never have evaluation
\* requests on its engine at the same time, and the engine is never
\* terminated while a run has a request pending on it.
C22_ExclusiveEngine ==
    \A r, s \in DOMAIN runs :
        /\ (r # s /\ Requesting(r)) => ~Requesting(s)
        /\ Requesting(r) => calls[runs[r].awaits].cutAt < 0

\* The second half of C22 alone: no terminate while a request is pending.
NoTerminateUnderRequest ==
    \A r \in DOMAIN runs : Requesting(r) => calls[runs[r].awaits].cutAt < 0

\* The plies of the analysed player in the replayed history of run g.
TrackedPlies(g) ==
    {j \in 0..(Len(g.history) - 1) : IsPlayerMove(g.playerColor, j)}

\* A returned report counts every ply of the analysed player.
ReportCoversHistory ==
    ga.pc = "returned" =>
        ga.report.phase["opening"].moves + ga.report.phase["middlegame"].moves
            + ga.report.phase["endgame"].moves
          = Cardinality(TrackedPlies(ga))

\* C23: a returned report counts every ply of the analysed player in the
\* replayed history, and a run ends in a report or in an error: wherever
\* it cannot go on, it has returned or thrown.
C23_NeverTruncated ==
    /\ ReportCoversHistory
    /\ (ga.pc # "idle" /\ ~ENABLED GameNext) => ga.pc \in {"returned", "threw"}

\* C24: the plies are given to the board in index order, each once; the
\* requests are, for each ply of the analysed player in turn and for no
\* other ply, analyze on the position before the move and then
\* evaluatePosition on the position after it, never two at a time; a run
\* that has returned has made twice as many requests as the analysed player
\* has plies.
C24_TwoRequestsPerPly ==
    ga.pc # "idle" =>
        LET first == IF ga.playerColor = "white" THEN 0 ELSE 1
            n == Len(ga.history)
            tracked == IF ga.playerColor = "white" THEN (n + 1) \div 2 ELSE n \div 2
        IN  /\ \A k \in DOMAIN ga.applied : ga.applied[k] = k - 1
            /\ Len(ga.applied) <= n
            /\ \A k \in DOMAIN ga.asked :
                  LET ply == first + 2 * ((k - 1) \div 2)
                  IN  /\ ga.asked[k].i = ply
                      /\ ga.asked[k].op =
                            (IF k % 2 = 1 THEN "analyze" ELSE "evaluatePosition")
                      /\ ga.asked[k].moved = (IF k % 2 = 1 THEN ply ELSE ply + 1)
            /\ ga.requests = Len(ga.asked)
            /\ Len(ga.asked) \in {2 * Len(ga.plies), 2 * Len(ga.plies) + 1,
                                  2 * Len(ga.plies) + 2}
            /\ ga.pc = "analyze" => Len(ga.asked) = 2 * Len(ga.plies) + 1
            /\ ga.pc = "evaluatePosition" => Len(ga.asked) = 2 * Len(ga.plies) + 2
            /\ ga.pc = "returned" =>
                  /\ Len(ga.applied) = n
                  /\ Len(ga.asked) = 2 * tracked
                  /\ Len(ga.plies) = tracked

\* A run for black on a game of five plies has returned after four
\* requests.
C24_Witness ==
    /\ ga.pc = "returned"
    /\ ga.playerColor = "black"
    /\ Len(ga.history) = 5
    /\ Len(ga.asked) = 4
    /\ ga.asked[3] = [op |-> "analyze", i |-> 3, moved |-> 3]

\* The raw evaluation the k-th analysed ply of run g is compared with.
ChainedEval(g, k) == IF k = 1 THEN 0 ELSE g.plies[k - 1].evalAfter

\* C25: the evaluation drop of the first analysed ply is taken from the
\* baseline 0 and that of every later one from the raw evaluation after the
\* previous analysed ply; so the record of a ply carries as previousEval
\* what the record of the analysed ply before it, if any, carries as
\* evaluation.
C25_PreviousEvalChain ==
    ga.pc # "idle" =>
        /\ \A k \in DOMAIN ga.plies :
              /\ ga.plies[k].evalDrop =
                    Adjusted(ga.playerColor, ChainedEval(ga, k))
                    - Adjusted(ga.playerColor, ga.plies[k].evalAfter)
              /\ \A j \in DOMAIN ga.mistakesList :
                    ga.mistakesList[j].fen = ga.plies[k].i =>
                        ga.mistakesList[j].previousEval =
                            Adjusted(ga.playerColor, ChainedEval(ga, k))
        /\ ga.previousEval = ChainedEval(ga, Len(ga.plies) + 1)
        /\ \A j \in DOMAIN ga.mistakesList :
              (j > 1 /\ ga.mistakesList[j].fen = ga.mistakesList[j - 1].fen + 2) =>
                  ga.mistakesList[j].previousEval = ga.mistakesList[j - 1].evaluation

\* A report whose first two analysed plies both have records, the first
\* leaving an evaluation other than 0.
C25_Witness ==
    /\ ga.pc = "returned"
    /\ Len(ga.mistakesList) >= 2
    /\ ga.mistakesList[2].fen = ga.mistakesList[1].fen + 2
    /\ ga.mistakesList[1].previousEval = 0
    /\ ga.mistakesList[1].evaluation # 0
    /\ ga.mistakesList[2].previousEval = ga.mistakesList[1].evaluation

\* The places in lines of the 'info depth' lines that carry a score.
Scored(lines) ==
    {k \in DOMAIN lines : IsInfoLine(lines[k]) /\ HasScore(lines[k])}

\* C26: the evaluation an analyze call resolves with was parsed from a
\* score-bearing line of its search; a search whose result line comes
\* without any score line before it does not resolve with a score.
C26_NoInventedEvaluation ==
    (fn.op = "search" /\ fn.after.pc = "resolved") =>
        \E k \in Scored(fn.lines) :
            Result(fn.after).evaluation = LineScore(fn.lines[k])

\* C27: the mate field of a resolved result is set exactly when the last
\* score-bearing line of the search was a 'score mate N' line, and then it
\* is that N; a later 'score cp' line leaves it unset.
C27_MateFromLastScore ==
    (fn.op = "search" /\ fn.after.pc = "resolved") =>
        LET scored == Scored(fn.lines)
            latest == CHOOSE k \in scored : \A j \in scored : j <= k
        IN  IF scored # {} /\ fn.lines[latest][FieldAt(fn.lines[latest], "score") + 1] = "mate"
            THEN Result(fn.after).mate = <<LineScoreValue(fn.lines[latest])>>
            ELSE Result(fn.after).mate = <<>>

\* C28: an analysed ply whose evaluation drop is at most 0 gets no record
\* and adds to none of the counters blunders, mistakes and inaccuracies, so
\* every record has previousEval - evaluation of at least 0.50 pawns.
C28_OnlyWorseningRecorded ==
    ga.pc # "idle" =>
        /\ \A k \in DOMAIN ga.plies :
              ga.plies[k].evalDrop <= 0 =>
                  \A j \in DOMAIN ga.mistakesList :
                      ga.mistakesList[j].fen # ga.plies[k].i
        /\ \A j \in DOMAIN ga.mistakesList :
              ga.mistakesList[j].previousEval - ga.mistakesList[j].evaluation >= 50
        /\ ga.blunders + ga.mistakes + ga.inaccuracies
              = Cardinality({k \in DOMAIN ga.plies : ga.plies[k].evalDrop > 0
                                                     /\ ga.plies[k].severity # "none"})

\* C29: of the workers one engine has created, at most one has not been
\* terminated.
C29_AtMostOneWorker ==
    Cardinality({w \in DOMAIN workers : workers[w].alive}) <= 1

\* C30: when the only run of analyzeGame on an analyzer has completed, by
\* returning a report or by throwing, the engine has been terminated: it
\* holds no worker, is not ready, and no worker it created is running.
C30_EngineReleased ==
    (Len(runs) = 1 /\ runs[1].g.pc \in {"returned", "threw"}) =>
        /\ worker = 0
        /\ ~ready
        /\ \A w \in DOMAIN workers : ~workers[w].alive

====
